---- MODULE Spec2Model ----
(***************************************************************************)
(* A model of the ntfy client (src/src/ntfy_client/client.py): the topic   *)
(* generators, send_notification, the subscribe generator and the ntfy     *)
(* decorator of class NtfyClient.                                          *)
(*                                                                         *)
(* Python values.  A str is the sequence of its code points, a bytes       *)
(* object the sequence of its bytes (0..255).  Any other object is a        *)
(* sequence that starts with a negative number, which no str or bytes      *)
(* value does: None holds -1, a requests.Response -2 and its status code,  *)
(* a generator object -3, a function object -4.                            *)
(***************************************************************************)
EXTENDS Integers, Sequences, FiniteSets, TLC

VARIABLES
    topic,      \* self.topic: the client's default topic (a str or None)
    calls,      \* what the transport (self.session) was asked: the requests, in order
    call,       \* the call made last: its arguments and self.topic when it was made
    ret,        \* how that call ended: a returned value or a raised exception
    out,        \* what was printed
    wrapper,    \* the closure built by ntfy(...)(func): message, topic, notify_kwargs
    inv,        \* the steps of the last invocation of the wrapper, in order
    gen,        \* the generator objects returned by subscribe(...), in order of the calls
    conn        \* the streaming response each generator holds: its state and lines read

vars == <<topic, calls, call, ret, out, wrapper, inv, gen, conn>>

----------------------------------------------------------------------------
(* Bounds of the model. *)

\* the longest byte string secrets.token_bytes is asked for by the random strategy
MaxLen == 3
\* random draws are all byte strings that repeat a pattern of at most this length
MaxPeriod == 2
\* the most lines the streamed responses of a client deliver in all
MaxLines == 3
\* the most generators a client is asked for
MaxGens == 2

----------------------------------------------------------------------------
(* Python's None, truth value and `or`. *)

None == <<-1>>

\* bool(v) of a str, bytes or None
Truthy(v) == v /= None /\ v /= <<>>

\* a or b
PyOr(a, b) == IF Truthy(a) THEN a ELSE b

----------------------------------------------------------------------------
(* Loops.  Iterate(F, x, lo, hi) is F(... F(F(x, lo), lo + 1) ..., hi): the loop
   `for t in lo..hi: x = F(x, t)`.  It is computed by halves, each half evaluated once
   before the next starts (Only({G(y) : y \in {e}}) is G(e) with e evaluated first). *)

Only(S) == CHOOSE x \in S : TRUE

RECURSIVE Iterate(_, _, _, _)
Iterate(F(_, _), x, lo, hi) ==
    IF lo > hi THEN x
    ELSE IF lo = hi THEN F(x, lo)
    ELSE Only({Iterate(F, y, ((lo + hi) \div 2) + 1, hi) :
                 y \in {Iterate(F, x, lo, (lo + hi) \div 2)}})

----------------------------------------------------------------------------
(* 16-bit arithmetic for the 32-bit words of SHA-256: a word is <<hi, lo>>. *)

RECURSIVE Xor16(_, _)
Xor16(a, b) == IF a = 0 THEN b ELSE IF b = 0 THEN a
               ELSE ((a + b) % 2) + 2 * Xor16(a \div 2, b \div 2)

RECURSIVE And16(_, _)
And16(a, b) == IF a = 0 \/ b = 0 THEN 0
               ELSE ((a % 2) * (b % 2)) + 2 * And16(a \div 2, b \div 2)

XorW(a, b) == <<Xor16(a[1], b[1]), Xor16(a[2], b[2])>>

AndW(a, b) == <<And16(a[1], b[1]), And16(a[2], b[2])>>

NotW(a) == <<65535 - a[1], 65535 - a[2]>>

\* rotate right by n, 0 < n < 32
RotrW(x, n) ==
    LET y == IF n >= 16 THEN <<x[2], x[1]>> ELSE x
        k == n % 16
    IN  IF k = 0 THEN y
        ELSE <<(y[1] \div 2^k) + (y[2] % 2^k) * 2^(16 - k),
               (y[2] \div 2^k) + (y[1] % 2^k) * 2^(16 - k)>>

\* shift right by n, 0 < n < 16
ShrW(x, n) == <<x[1] \div 2^n, (x[2] \div 2^n) + (x[1] % 2^n) * 2^(16 - n)>>

RECURSIVE SumHi(_)
SumHi(ws) == IF ws = <<>> THEN 0 ELSE Head(ws)[1] + SumHi(Tail(ws))

RECURSIVE SumLo(_)
SumLo(ws) == IF ws = <<>> THEN 0 ELSE Head(ws)[2] + SumLo(Tail(ws))

\* the sum of the words of ws, modulo 2^32
AddW(ws) == <<(SumHi(ws) + (SumLo(ws) \div 65536)) % 65536, SumLo(ws) % 65536>>

----------------------------------------------------------------------------
(* hashlib.sha256 (FIPS 180-4). *)

K256 ==
    <<<<17034, 12184>>, <<28983, 17553>>, <<46528, 64463>>, <<59829, 56229>>,
      <<14678, 49755>>, <<23025, 4593>>, <<37439, 33444>>, <<43804, 24277>>,
      <<55303, 43672>>, <<4739, 23297>>, <<9265, 34238>>, <<21772, 32195>>,
      <<29374, 23924>>, <<32990, 45566>>, <<39900, 1703>>, <<49563, 61812>>,
      <<58523, 27073>>, <<61374, 18310>>, <<4033, 40390>>, <<9228, 41420>>,
      <<11753, 11375>>, <<19060, 33962>>, <<23728, 43484>>, <<30457, 35034>>,
      <<38974, 20818>>, <<43057, 50797>>, <<45059, 10184>>, <<48985, 32711>>,
      <<50912, 3059>>, <<54695, 37191>>, <<1738, 25425>>, <<5161, 10599>>,
      <<10167, 2693>>, <<11803, 8504>>, <<19756, 28156>>, <<21304, 3347>>,
      <<25866, 29524>>, <<30314, 2747>>, <<33218, 51502>>, <<37490, 11397>>,
      <<41663, 59553>>, <<43034, 26187>>, <<49739, 35696>>, <<51052, 20899>>,
      <<53650, 59417>>, <<54937, 1572>>, <<62478, 13701>>, <<4202, 41072>>,
      <<6564, 49430>>, <<7735, 27656>>, <<10056, 30540>>, <<13488, 48309>>,
      <<14620, 3251>>, <<20184, 43594>>, <<23452, 51791>>, <<26670, 28659>>,
      <<29839, 33518>>, <<30885, 25455>>, <<33992, 30740>>, <<36039, 520>>,
      <<37054, 65530>>, <<42064, 27883>>, <<48889, 41975>>, <<50801, 30962>>>>

H0 ==
    <<<<27145, 58983>>, <<47975, 44677>>, <<15470, 62322>>, <<42319, 62778>>,
      <<20750, 21119>>, <<39685, 26764>>, <<8067, 55723>>, <<23520, 52505>>>>

Zeros(n) == [i \in 1..n |-> 0]

\* the message, a 1 bit, zeros to 56 modulo 64, and the bit length in 8 bytes
Sha256Pad(m) ==
    LET bits == 8 * Len(m)
    IN  m \o <<128>> \o Zeros((119 - Len(m)) % 64)
          \o <<0, 0, 0, 0, 0, (bits \div 65536) % 256, (bits \div 256) % 256, bits % 256>>

\* the 32-bit word at bytes i..i+3 of a block
WordAt(bs, i) == <<bs[i] * 256 + bs[i + 1], bs[i + 2] * 256 + bs[i + 3]>>

\* word t of the message schedule, from the words before it
ScheduleWord(w, t) ==
    LET s0 == XorW(XorW(RotrW(w[t - 15], 7), RotrW(w[t - 15], 18)), ShrW(w[t - 15], 3))
        s1 == XorW(XorW(RotrW(w[t - 2], 17), RotrW(w[t - 2], 19)), ShrW(w[t - 2], 10))
    IN  AddW(<<w[t - 16], s0, w[t - 7], s1>>)

\* the 64 words of the message schedule of a block
Schedule(block) ==
    LET Step(w, t) == Append(w, ScheduleWord(w, t))
    IN  Iterate(Step, [i \in 1..16 |-> WordAt(block, 4 * i - 3)], 17, 64)

\* round t on the working variables a..h
Round(s, w, t) ==
    LET S1  == XorW(XorW(RotrW(s[5], 6), RotrW(s[5], 11)), RotrW(s[5], 25))
        ch  == XorW(AndW(s[5], s[6]), AndW(NotW(s[5]), s[7]))
        t1  == AddW(<<s[8], S1, ch, K256[t], w[t]>>)
        S0  == XorW(XorW(RotrW(s[1], 2), RotrW(s[1], 13)), RotrW(s[1], 22))
        maj == XorW(XorW(AndW(s[1], s[2]), AndW(s[1], s[3])), AndW(s[2], s[3]))
        t2  == AddW(<<S0, maj>>)
    IN  <<AddW(<<t1, t2>>), s[1], s[2], s[3], AddW(<<s[4], t1>>), s[5], s[6], s[7]>>

\* the compression function: 64 rounds from the hash value hh, which is then added
Compress(hh, block) ==
    Only({LET Step(s, t) == Round(s, w, t)
          IN  Only({[i \in 1..8 |-> AddW(<<hh[i], s[i]>>)] : s \in {Iterate(Step, hh, 1, 64)}})
            : w \in {Schedule(block)}})

\* the bytes of a sequence of words, most significant first
WordBytes(ws) ==
    [i \in 1..(4 * Len(ws)) |->
        LET w == ws[((i - 1) \div 4) + 1]
            k == (i - 1) % 4
        IN  IF k = 0 THEN w[1] \div 256 ELSE IF k = 1 THEN w[1] % 256
            ELSE IF k = 2 THEN w[2] \div 256 ELSE w[2] % 256]

\* hashlib.sha256(m).digest(): 32 bytes
Sha256(m) ==
    Only({LET Step(hh, b) == Compress(hh, SubSeq(p, 64 * b - 63, 64 * b))
          IN  Only({WordBytes(h) : h \in {Iterate(Step, H0, 1, Len(p) \div 64)}})
            : p \in {Sha256Pad(m)}})

----------------------------------------------------------------------------
(* str and bytes: hex, base64, UTF-8, rstrip, str(int). *)

\* one lowercase hexadecimal digit, as its code point: '0'..'9' are 48..57, 'a'..'f' 97..102
HexDigit(n) == IF n < 10 THEN 48 + n ELSE 87 + n

\* bytes.hex(): two lowercase digits a byte
Hexlify(bs) ==
    [i \in 1..(2 * Len(bs)) |->
        IF i % 2 = 1 THEN HexDigit(bs[(i + 1) \div 2] \div 16)
        ELSE HexDigit(bs[i \div 2] % 16)]

\* the standard base64 alphabet: A-Z a-z 0-9 + /
B64Char(i) ==
    IF i < 26 THEN 65 + i
    ELSE IF i < 52 THEN 71 + i
    ELSE IF i < 62 THEN i - 4
    ELSE IF i = 62 THEN 43 ELSE 47

\* base64.b64encode: each group of 3 bytes gives 4 characters of 6 bits; a last group
\* of 1 or 2 bytes is filled with zero bits and padded with '=' (61)
B64Encode(bs) ==
    LET n == Len(bs)
        Byte(i) == IF i <= n THEN bs[i] ELSE 0
    IN  [j \in 1..(4 * ((n + 2) \div 3)) |->
            LET g == 3 * ((j - 1) \div 4)
                k == (j - 1) % 4
            IN  IF k = 0 THEN B64Char(Byte(g + 1) \div 4)
                ELSE IF k = 1 THEN
                    B64Char((Byte(g + 1) % 4) * 16 + (Byte(g + 2) \div 16))
                ELSE IF k = 2 THEN
                    (IF g + 2 > n THEN 61
                     ELSE B64Char((Byte(g + 2) % 16) * 4 + (Byte(g + 3) \div 64)))
                ELSE (IF g + 3 > n THEN 61 ELSE B64Char(Byte(g + 3) % 64))]

\* base64.urlsafe_b64encode: b64encode, then '+' becomes '-' (45) and '/' becomes '_' (95)
UrlsafeB64Encode(bs) ==
    LET e == B64Encode(bs)
    IN  [i \in 1..Len(e) |-> IF e[i] = 43 THEN 45 ELSE IF e[i] = 47 THEN 95 ELSE e[i]]

\* the length of the well-formed UTF-8 sequence that starts at byte i of bs, 0 when
\* none does
Utf8SeqLen(bs, i) ==
    LET n == Len(bs)
        Cont(j) == j <= n /\ bs[j] >= 128 /\ bs[j] <= 191
    IN  IF bs[i] < 128 THEN 1
        ELSE IF bs[i] >= 194 /\ bs[i] <= 223 THEN (IF Cont(i + 1) THEN 2 ELSE 0)
        ELSE IF bs[i] = 224 THEN
            (IF Cont(i + 1) /\ bs[i + 1] >= 160 /\ Cont(i + 2) THEN 3 ELSE 0)
        ELSE IF bs[i] = 237 THEN
            (IF Cont(i + 1) /\ bs[i + 1] <= 159 /\ Cont(i + 2) THEN 3 ELSE 0)
        ELSE IF bs[i] >= 225 /\ bs[i] <= 239 THEN
            (IF Cont(i + 1) /\ Cont(i + 2) THEN 3 ELSE 0)
        ELSE IF bs[i] = 240 THEN
            (IF Cont(i + 1) /\ bs[i + 1] >= 144 /\ Cont(i + 2) /\ Cont(i + 3) THEN 4 ELSE 0)
        ELSE IF bs[i] >= 241 /\ bs[i] <= 243 THEN
            (IF Cont(i + 1) /\ Cont(i + 2) /\ Cont(i + 3) THEN 4 ELSE 0)
        ELSE IF bs[i] = 244 THEN
            (IF Cont(i + 1) /\ bs[i + 1] <= 143 /\ Cont(i + 2) /\ Cont(i + 3) THEN 4 ELSE 0)
        ELSE 0

\* the code point the well-formed sequence of k bytes at byte i encodes
Utf8CodePoint(bs, i, k) ==
    IF k = 1 THEN bs[i]
    ELSE IF k = 2 THEN (bs[i] % 32) * 64 + (bs[i + 1] % 64)
    ELSE IF k = 3 THEN (bs[i] % 16) * 4096 + (bs[i + 1] % 64) * 64 + (bs[i + 2] % 64)
    ELSE (bs[i] % 8) * 262144 + (bs[i + 1] % 64) * 4096
           + (bs[i + 2] % 64) * 64 + (bs[i + 3] % 64)

\* the decoder's pass over bs: the position of the next sequence, the code points
\* decoded so far, and whether every sequence so far was well formed
Utf8Scan(bs) ==
    LET Step(st, i) ==
            IF ~st.ok \/ i /= st.pos THEN st
            ELSE IF Utf8SeqLen(bs, i) = 0 THEN [st EXCEPT !.ok = FALSE]
            ELSE [pos |-> i + Utf8SeqLen(bs, i),
                  cps |-> Append(st.cps, Utf8CodePoint(bs, i, Utf8SeqLen(bs, i))),
                  ok  |-> TRUE]
    IN  Iterate(Step, [pos |-> 1, cps |-> <<>>, ok |-> TRUE], 1, Len(bs))

\* whether bytes.decode('utf-8') returns (it raises UnicodeDecodeError otherwise)
Utf8Valid(bs) == \A x \in {bs} : Utf8Scan(x).ok

\* bytes.decode('utf-8') of well-formed bytes: the code points
Utf8Decode(bs) == Only({Utf8Scan(x).cps : x \in {bs}})

\* the reason of the UnicodeDecodeError the decoder raises at the ill-formed sequence
\* that starts at byte i: a byte that cannot start a sequence, or, going through the
\* bytes the start byte calls for, the first that is missing or not the continuation
\* byte the start byte allows
Utf8ErrorReason(bs, i) ==
    LET n == Len(bs)
        need == IF bs[i] >= 194 /\ bs[i] <= 223 THEN 2
                ELSE IF bs[i] >= 224 /\ bs[i] <= 239 THEN 3
                ELSE IF bs[i] >= 240 /\ bs[i] <= 244 THEN 4
                ELSE 0
        Allowed(j) ==
            /\ bs[i + j] >= 128 /\ bs[i + j] <= 191
            /\ j = 1 => /\ bs[i] = 224 => bs[i + 1] >= 160
                        /\ bs[i] = 237 => bs[i + 1] <= 159
                        /\ bs[i] = 240 => bs[i + 1] >= 144
                        /\ bs[i] = 244 => bs[i + 1] <= 143
        bad == {j \in 1..(need - 1) : i + j > n \/ ~Allowed(j)}
        first == CHOOSE j \in bad : \A k \in bad : j <= k
    IN  IF need = 0 THEN "invalid start byte"
        ELSE IF i + first > n THEN "unexpected end of data"
        ELSE "invalid continuation byte"

\* the reason bytes.decode('utf-8') gives when it raises on bs
Utf8DecodeError(bs) == Only({Utf8ErrorReason(bs, st.pos) : st \in {Utf8Scan(bs)}})

\* whether str.encode('utf-8') returns: it raises UnicodeEncodeError on a surrogate
\* code point (U+D800..U+DFFF)
Utf8Encodable(s) == \A i \in 1..Len(s) : s[i] < 55296 \/ s[i] > 57343

\* the UTF-8 bytes of one code point
Utf8Bytes(c) ==
    IF c < 128 THEN <<c>>
    ELSE IF c < 2048 THEN <<192 + (c \div 64), 128 + (c % 64)>>
    ELSE IF c < 65536 THEN
        <<224 + (c \div 4096), 128 + ((c \div 64) % 64), 128 + (c % 64)>>
    ELSE <<240 + (c \div 262144), 128 + ((c \div 4096) % 64),
           128 + ((c \div 64) % 64), 128 + (c % 64)>>

\* str.encode('utf-8') of a str without surrogates
Utf8Encode(s) ==
    Only({LET Step(bs, i) == bs \o Utf8Bytes(x[i])
          IN  Iterate(Step, <<>>, 1, Len(x)) : x \in {s}})

\* a str left as it is, its trailing characters kept
NoStrip(s, c) == s

\* s.rstrip(chr(c)): s without its trailing characters c
RStrip(s, c) ==
    Only({LET keep == {i \in 1..Len(x) : x[i] /= c}
              last == IF keep = {} THEN 0 ELSE CHOOSE i \in keep : \A j \in keep : j <= i
          IN  SubSeq(x, 1, last) : x \in {s}})

\* str(n) of an int n >= 0
RECURSIVE IntToStr(_)
IntToStr(n) == IF n < 10 THEN <<48 + n>> ELSE IntToStr(n \div 10) \o <<48 + (n % 10)>>

----------------------------------------------------------------------------
(* How an operation ends, and Python's dict. *)

Return(v) == [kind |-> "return", value |-> v]

Raise(e, m) == [kind |-> "raise", exc |-> e, msg |-> m]

\* no operation has been invoked yet
NoCall == [op |-> "none"]

NoRet == [kind |-> "none"]

\* the dict without keys, and d.get(k, default)
EmptyDict == <<>>

Get(d, k, default) == IF k \in DOMAIN d THEN d[k] ELSE default

----------------------------------------------------------------------------
(* The random source.  secrets.token_bytes(n) returns n bytes of a byte stream; the
   model's streams repeat a pattern of at most MaxPeriod bytes over ByteSamples, which
   holds the bytes whose base64 characters are '-', '_', '+' and '/' (251, 255), a
   byte of zero bits and a byte of mixed bits. *)

ByteSamples == {0, 77, 251, 255}

Patterns == UNION {[1..k -> ByteSamples] : k \in 1..MaxPeriod}

\* secrets.token_bytes(n) on the stream that repeats pattern p
TokenBytes(p, n) == [i \in 1..n |-> p[((i - 1) % Len(p)) + 1]]

\* secrets.token_hex(n)
TokenHex(p, n) == Hexlify(TokenBytes(p, n))

----------------------------------------------------------------------------
(* hashlib and hmac on the model's inputs. *)

\* base_topic of the compound strategy: None, '', 'x', 'ab'
BaseTopicSamples == {None, <<>>, <<120>>, <<97, 98>>}

\* secret_key and identifier of the hmac strategy: None, '', 'k' and 'id-1'
SecretKeySamples == {None, <<>>, <<107>>}

IdentifierSamples == {None, <<>>, <<105, 100, 45, 49>>}

\* the digests of the base topics the model hashes
Sha256Samples ==
    [m \in {Utf8Encode(b) : b \in {t \in BaseTopicSamples : Truthy(t)}} |-> Sha256(m)]

\* hashlib.sha256(m).digest(), for m the encoding of a sampled base topic
HashlibSha256(m) == Sha256Samples[m]

\* hmac.new(key, msg, hashlib.sha256).digest() (RFC 2104, block size 64)
HmacNew(key, msg) ==
    LET k0   == IF Len(key) > 64 THEN Sha256(key) ELSE key
        k    == k0 \o Zeros(64 - Len(k0))
        ipad == [i \in 1..64 |-> Xor16(k[i], 54)]
        opad == [i \in 1..64 |-> Xor16(k[i], 92)]
    IN  Only({Sha256(opad \o inner) : inner \in {Sha256(ipad \o msg)}})

----------------------------------------------------------------------------
(* The topic generators.  Each takes the random streams it draws from. *)

\* _generate_random_topic(length, complexity), drawing from stream p
GenerateRandomTopic(length, complexity, p) ==
    IF complexity = 1 THEN
        RStrip(Utf8Decode(B64Encode(TokenBytes(p, length))), 61)
    ELSE IF complexity = 2 THEN
        TokenHex(p, length)
    ELSE
        RStrip(Utf8Decode(UrlsafeB64Encode(TokenBytes(p, length))), 61)

\* _generate_hmac_topic(secret_key, identifier)
GenerateHmacTopic(secret_key, identifier) ==
    Hexlify(HmacNew(Utf8Encode(secret_key), Utf8Encode(identifier)))

\* str(uuid.uuid4()): 16 random bytes with the version and variant bits set, printed
\* as 8-4-4-4-12 hexadecimal digits
Uuid4(p) ==
    LET r == TokenBytes(p, 16)
        b == [i \in 1..16 |-> IF i = 7 THEN 64 + (r[i] % 16)
                              ELSE IF i = 9 THEN 128 + (r[i] % 64) ELSE r[i]]
        h == Hexlify(b)
    IN  SubSeq(h, 1, 8) \o <<45>> \o SubSeq(h, 9, 12) \o <<45>> \o SubSeq(h, 13, 16)
          \o <<45>> \o SubSeq(h, 17, 20) \o <<45>> \o SubSeq(h, 21, 32)

\* the whole hex digest in place of its first 16 characters
BaseHashWhole(base_topic) == Hexlify(HashlibSha256(Utf8Encode(base_topic)))

\* base_hash = hashlib.sha256(base_topic.encode()).hexdigest()[:16]
BaseHash(base_topic) == SubSeq(Hexlify(HashlibSha256(Utf8Encode(base_topic))), 1, 16)

\* _generate_compound_topic(base_topic), drawing random_part1 from stream p1 and
\* random_part2 from stream p2; the parts are joined by '-' (45)
GenerateCompoundTopic(base_topic, p1, p2) ==
    LET random_part1 == TokenHex(p1, 8)
        random_part2 == RStrip(Utf8Decode(UrlsafeB64Encode(TokenBytes(p2, 12))), 61)
    IN  IF Truthy(base_topic) THEN
            BaseHash(base_topic) \o <<45>> \o random_part1 \o <<45>> \o random_part2
        ELSE random_part1 \o <<45>> \o random_part2

\* generate_secure_topic(method, **kwargs): how the call ends
GenerateSecureTopic(method, kwargs, p1, p2) ==
    IF method = "random" THEN
        Return(GenerateRandomTopic(Get(kwargs, "length", 32), Get(kwargs, "complexity", 2), p1))
    ELSE IF method = "hmac" THEN
        IF ~Truthy(Get(kwargs, "secret_key", None)) \/ ~Truthy(Get(kwargs, "identifier", None))
        THEN Raise("ValueError", "For HMAC method, secret_key and identifier must be provided.")
        ELSE Return(GenerateHmacTopic(kwargs["secret_key"], kwargs["identifier"]))
    ELSE IF method = "uuid" THEN
        Return(Uuid4(p1))
    ELSE IF method = "compound" THEN
        Return(GenerateCompoundTopic(Get(kwargs, "base_topic", None), p1, p2))
    ELSE
        Raise("ValueError", <<"Unsupported topic generation method: ", method>>)


----------------------------------------------------------------------------
(* The client: construction and the default topic. *)

\* base_url, the default "https://ntfy.sh"
BaseUrl == <<104, 116, 116, 112, 115, 58, 47, 47, 110, 116, 102, 121, 46, 115, 104>>

\* topic arguments: None, '' and 't1'
TopicArgs == {None, <<>>, <<116, 49>>}

\* the random stream the constructor's generate_secure_topic draws from
InitPatterns == {<<77, 251>>}

GeneratorObject == <<-3>>

FunctionObject == <<-4>>

NoWrapper == [state |-> "none"]

NoConn == [state |-> "none"]

\* self.topic after __init__(topic=topic_arg, auto_generate_topic=auto), drawing from p
NewClientTopic(topic_arg, auto, p) ==
    IF Truthy(topic_arg) THEN topic_arg
    ELSE IF auto THEN
        GenerateSecureTopic("random", [length |-> 32, complexity |-> 2], p, p).value
    ELSE None

\* a client as NtfyClient(topic=..., auto_generate_topic=...) leaves it
Init ==
    /\ \E topic_arg \in TopicArgs, auto \in BOOLEAN, p \in InitPatterns :
          topic = NewClientTopic(topic_arg, auto, p)
    /\ calls = <<>>
    /\ call = NoCall
    /\ ret = NoRet
    /\ out = <<>>
    /\ wrapper = NoWrapper
    /\ inv = <<>>
    /\ gen = <<>>
    /\ conn = <<>>

\* client.topic = t: the default topic is a plain attribute, set from outside
SetTopic ==
    \E t \in TopicArgs :
        /\ topic' = t
        /\ UNCHANGED <<calls, call, ret, out, wrapper, inv, gen, conn>>

----------------------------------------------------------------------------
(* send_notification. *)

\* messages: 'é!' and a str that holds a lone surrogate, 'a\udc80'
Messages == {<<233, 33>>, <<97, 56448>>}

\* the keyword arguments of a notification: priority, title ('T') and tags ('ok')
NotifyKwargs ==
    {EmptyDict, [priority |-> 5], [title |-> <<84>>, tags |-> <<111, 107>>]}

\* what session.post / session.get meets: a requests exception, or a response
StatusSamples == {200, 304, 404, 503}

TransportErrors == {"ConnectionError", "Timeout"}

PostOutcomes ==
    {[kind |-> "error", exc |-> e] : e \in TransportErrors}
      \cup {[kind |-> "response", status |-> st] : st \in StatusSamples}

\* a requests.Response with this status code
Response(status) == <<-2, status>>

\* whether response.raise_for_status() raises HTTPError: it does on 4xx and 5xx
RaiseForStatus(status) == 400 <= status /\ status < 600

\* f"{self.base_url}/{topic}"
Url(t) == BaseUrl \o <<47>> \o t

\* the headers of the POST: Priority always, Title and Tags when given
Headers(kwargs) ==
    [h \in {"Priority"} \cup (IF "title" \in DOMAIN kwargs THEN {"Title"} ELSE {})
                        \cup (IF "tags" \in DOMAIN kwargs THEN {"Tags"} ELSE {})
       |-> IF h = "Priority" THEN IntToStr(Get(kwargs, "priority", 3))
           ELSE IF h = "Title" THEN kwargs["title"]
           ELSE kwargs["tags"]]

\* the try block of send_notification for the resolved topic t: the POST, whose end is
\* po, and what follows it.  The result holds the requests issued, the lines printed
\* and how the call ends.
Post(t, message, kwargs, po) ==
    IF ~Utf8Encodable(message) THEN
        [calls |-> <<>>, out |-> <<>>, ret |-> Raise("UnicodeEncodeError", "surrogates not allowed")]
    ELSE
        LET request == [method |-> "POST", url |-> Url(t), data |-> Utf8Encode(message),
                        headers |-> Headers(kwargs), outcome |-> po]
        IN  IF po.kind = "error" THEN
                [calls |-> <<request>>,
                 out   |-> <<[text |-> "Failed to send notification: ", error |-> po.exc]>>,
                 ret   |-> Return(None)]
            ELSE IF RaiseForStatus(po.status) THEN
                [calls |-> <<request>>,
                 out   |-> <<[text |-> "Failed to send notification: ", error |-> "HTTPError"]>>,
                 ret   |-> Return(None)]
            ELSE
                [calls |-> <<request>>,
                 out   |-> <<[text |-> "Notification sent successfully to topic: ", topic |-> t]>>,
                 ret   |-> Return(Response(po.status))]

\* send_notification without its topic check: the POST goes out for any topic
SendNotificationUnchecked(self_topic, message, topic_arg, kwargs, po) ==
    Post(PyOr(topic_arg, self_topic), message, kwargs, po)

\* send_notification(message, topic=topic_arg, **kwargs) on a client whose default topic
\* is self_topic, when the POST (if one is made) ends as po
SendNotification(self_topic, message, topic_arg, kwargs, po) ==
    IF ~Truthy(PyOr(topic_arg, self_topic)) THEN
        [calls |-> <<>>, out |-> <<>>,
         ret |-> Raise("ValueError", "No topic provided for sending notification.")]
    ELSE Post(PyOr(topic_arg, self_topic), message, kwargs, po)

\* client.send_notification(message, topic=topic_arg, **kwargs)
Send ==
    \E message \in Messages, topic_arg \in TopicArgs, kwargs \in NotifyKwargs,
       po \in PostOutcomes :
        /\ call' = [op |-> "send_notification", message |-> message, topic |-> topic_arg,
                    kwargs |-> kwargs, self_topic |-> topic]
        /\ \E r \in {SendNotification(topic, message, topic_arg, kwargs, po)} :
              calls' = r.calls /\ out' = r.out /\ ret' = r.ret
        /\ UNCHANGED <<topic, wrapper, inv, gen, conn>>

Next == Send \/ SetTopic

Spec == Init /\ [][Next]_vars

----------------------------------------------------------------------------
(* The ntfy decorator. *)

\* how the wrapped function ends: it returns None or 'v1', or raises
FuncOutcomes ==
    {Return(v) : v \in {None, <<118, 49>>}}
      \cup {Raise("RuntimeError", "boom"), Raise("KeyError", "missing")}

\* a closure that keeps the topic argument as it was given
NtfyTopicUnresolved(topic_arg, self_topic) == topic_arg

\* the topic the closure holds: `topic = topic or self.topic` when ntfy(...) is called
NtfyTopic(topic_arg, self_topic) == PyOr(topic_arg, self_topic)

\* the steps of send_notification as the wrapper sees them: the call, the requests it
\* issues and its end
SendSteps(w, s) ==
    <<[step |-> "send_notification", message |-> w.message, topic |-> w.topic,
       kwargs |-> w.notify_kwargs]>>
      \o [i \in 1..Len(s.calls) |-> [step |-> "request", url |-> s.calls[i].url]]
      \o <<[step |-> "send_notification ends", end |-> s.ret]>>

\* a wrapper that notifies before it runs the function
WrapperNotifiesFirst(w, self_topic, fo, po) ==
    LET s == SendNotification(self_topic, w.message, w.topic, w.notify_kwargs, po)
    IN  [calls |-> s.calls, out |-> s.out,
         ret   |-> IF s.ret.kind = "raise" THEN s.ret ELSE fo,
         steps |-> SendSteps(w, s)
                    \o (IF s.ret.kind = "raise" THEN <<>>
                        ELSE <<[step |-> "func ends", end |-> fo],
                               [step |-> "wrapper ends", end |-> fo]>>)]

\* a wrapper that notifies whether the function returns or raises
WrapperNotifiesAlways(w, self_topic, fo, po) ==
    LET s == SendNotification(self_topic, w.message, w.topic, w.notify_kwargs, po)
    IN  [calls |-> s.calls, out |-> s.out,
         ret   |-> IF s.ret.kind = "raise" THEN s.ret ELSE fo,
         steps |-> <<[step |-> "func ends", end |-> fo]>> \o SendSteps(w, s)
                    \o <<[step |-> "wrapper ends",
                          end |-> IF s.ret.kind = "raise" THEN s.ret ELSE fo]>>]

\* wrapper(*args, **kwargs) of the closure w on a client whose default topic is
\* self_topic, when func ends as fo and the POST (if one is made) as po: the steps
\* taken in order, the requests, the lines printed and how the wrapper ends
Wrapper(w, self_topic, fo, po) ==
    IF fo.kind = "raise" THEN
        [calls |-> <<>>, out |-> <<>>, ret |-> fo,
         steps |-> <<[step |-> "func ends", end |-> fo], [step |-> "wrapper ends", end |-> fo]>>]
    ELSE
        LET s == SendNotification(self_topic, w.message, w.topic, w.notify_kwargs, po)
        IN  [calls |-> s.calls, out |-> s.out,
             ret   |-> IF s.ret.kind = "raise" THEN s.ret ELSE Return(fo.value),
             steps |-> <<[step |-> "func ends", end |-> fo]>> \o SendSteps(w, s)
                        \o <<[step |-> "wrapper ends",
                              end |-> IF s.ret.kind = "raise" THEN s.ret
                                      ELSE Return(fo.value)]>>]

\* client.ntfy(message, topic=topic_arg, **notify_kwargs)(func): the closure replaces
\* the one built before; when no topic resolves, ntfy raises and builds none.  The
\* closure also records the arguments and default topic it was built from.
Ntfy ==
    \E message \in Messages, topic_arg \in TopicArgs, notify_kwargs \in NotifyKwargs :
        /\ call' = [op |-> "ntfy", message |-> message, topic |-> topic_arg,
                    kwargs |-> notify_kwargs, self_topic |-> topic]
        /\ calls' = <<>>
        /\ out' = <<>>
        /\ inv' = <<>>
        /\ IF ~Truthy(NtfyTopic(topic_arg, topic)) THEN
               /\ ret' = Raise("ValueError", "No topic provided for notification decorator.")
               /\ wrapper' = wrapper
           ELSE
               /\ ret' = Return(FunctionObject)
               /\ wrapper' = [state |-> "wrapped", message |-> message,
                              topic |-> NtfyTopic(topic_arg, topic),
                              notify_kwargs |-> notify_kwargs,
                              topic_arg |-> topic_arg, self_topic |-> topic]
        /\ UNCHANGED <<topic, gen, conn>>

\* one invocation of the wrapper built last
Invoke ==
    /\ wrapper.state = "wrapped"
    /\ \E fo \in FuncOutcomes, po \in PostOutcomes :
        /\ call' = [op |-> "wrapper", self_topic |-> topic]
        /\ \E r \in {Wrapper(wrapper, topic, fo, po)} :
              calls' = r.calls /\ out' = r.out /\ ret' = r.ret /\ inv' = r.steps
    /\ UNCHANGED <<topic, wrapper, gen, conn>>

NextNtfy == Ntfy \/ Invoke \/ SetTopic

SpecNtfy == Init /\ [][NextNtfy]_vars

----------------------------------------------------------------------------
(* subscribe: a generator function.  Calling it builds a generator object and runs
   none of its body; the body runs when the consumer pulls (next) and stops at each
   yield.  Every call builds a generator of its own, whatever the earlier ones are
   doing: gen[i] is the generator of the i-th call and conn[i] the response it holds. *)

\* the lines response.iter_lines() delivers: b'', b'a', b'\xc3\xa9' ('é'), and two that
\* are not UTF-8: b'\xff' (no start byte) and b'\xc3' ('é' cut short)
LineSamples == {<<>>, <<97>>, <<195, 169>>, <<255>>, <<195>>}

\* the status codes a GET is answered with
GetStatusSamples == {200, 404}

\* what session.get(..., stream=True) meets: a requests exception or a response
GetOutcomes ==
    {[kind |-> "error", exc |-> e] : e \in TransportErrors}
      \cup {[kind |-> "response", status |-> st] : st \in GetStatusSamples}

\* k empty lines
Empties(k) == [i \in 1..k |-> <<>>]

\* the lines the responses cs have delivered so far, counted
RECURSIVE LinesRead(_)
LinesRead(cs) ==
    IF cs = <<>> THEN 0
    ELSE (IF Head(cs).state = "none" THEN 0 ELSE Len(Head(cs).lines)) + LinesRead(Tail(cs))

\* what iter_lines() hands the for loop from one pull to the next when at most b more
\* lines arrive: some empty lines, and then a non-empty line, the end of the stream or
\* a connection that breaks
Deliveries(b) ==
    {[lines |-> Empties(k), ending |-> e] : k \in 0..b, e \in {"eof", "error"}}
      \cup {[lines |-> Append(Empties(k), l), ending |-> "none"] :
                k \in 0..(b - 1), l \in LineSamples \ {<<>>}}

\* f"{self.base_url}/{topic}/json"
SubscribeUrl(t) == BaseUrl \o <<47>> \o t \o <<47, 106, 115, 111, 110>>

\* a `with` statement that does not close its response
ExitWithout(c) == c

\* leaving `with self.session.get(...) as response`: the response is closed and its
\* connection released, however the block is left
ExitWith(c) == IF c.state = "open" THEN [c EXCEPT !.state = "released"] ELSE c

\* the index of the first non-empty line of ls, 0 when none
NextLine(ls) ==
    IF \E i \in 1..Len(ls) : ls[i] /= <<>>
    THEN CHOOSE i \in 1..Len(ls) : ls[i] /= <<>> /\ \A j \in 1..(i - 1) : ls[j] = <<>>
    ELSE 0

\* the for loop of the body of generator g over its open response c, from where it
\* stands up to the next yield or the end of the body, when d is delivered
Resume(g, c, d) ==
    LET read == [c EXCEPT !.lines = @ \o d.lines]
        n == NextLine(d.lines)
    IN  IF n /= 0 THEN
            IF Utf8Valid(d.lines[n]) THEN
                [gen  |-> [g EXCEPT !.state = "suspended",
                                    !.yielded = Append(@, Utf8Decode(d.lines[n]))],
                 conn |-> read,
                 out  |-> <<>>,
                 ret  |-> Return(Utf8Decode(d.lines[n]))]
            ELSE
                [gen  |-> [g EXCEPT !.state = "done", !.end = "decode"],
                 conn |-> ExitWith(read),
                 out  |-> <<>>,
                 ret  |-> Raise("UnicodeDecodeError", Utf8DecodeError(d.lines[n]))]
        ELSE IF d.ending = "eof" THEN
            [gen  |-> [g EXCEPT !.state = "done", !.end = "eof"],
             conn |-> ExitWith(read),
             out  |-> <<>>,
             ret  |-> Raise("StopIteration", "")]
        ELSE
            [gen  |-> [g EXCEPT !.state = "done", !.end = "error"],
             conn |-> ExitWith(read),
             out  |-> <<[text |-> "Subscription error: ", error |-> "ChunkedEncodingError"]>>,
             ret  |-> Raise("StopIteration", "")]

\* the body of generator g, the i-th of the client, from its first line, on a client
\* whose default topic is self_topic, when the GET (if one is made) ends as go and the
\* response (if one streams) delivers d
Start(g, i, self_topic, go, d) ==
    LET t == PyOr(g.topic, self_topic)
    IN  IF ~Truthy(t) THEN
            [gen |-> [g EXCEPT !.state = "done", !.topic = t, !.end = "config"],
             conn |-> NoConn, calls |-> <<>>, out |-> <<>>,
             ret |-> Raise("ValueError", "No topic provided for subscription.")]
        ELSE
            LET request == [method |-> "GET", url |-> SubscribeUrl(t), stream |-> TRUE,
                            by |-> i]
                started == [g EXCEPT !.topic = t]
            IN  IF go.kind = "error" THEN
                    [gen |-> [started EXCEPT !.state = "done", !.end = "error"],
                     conn |-> NoConn, calls |-> <<request>>,
                     out |-> <<[text |-> "Subscription error: ", error |-> go.exc]>>,
                     ret |-> Raise("StopIteration", "")]
                ELSE IF RaiseForStatus(go.status) THEN
                    [gen |-> [started EXCEPT !.state = "done", !.end = "error"],
                     conn |-> ExitWith([state |-> "open", status |-> go.status, lines |-> <<>>]),
                     calls |-> <<request>>,
                     out |-> <<[text |-> "Subscription error: ", error |-> "HTTPError"]>>,
                     ret |-> Raise("StopIteration", "")]
                ELSE
                    Only({[gen |-> r.gen, conn |-> r.conn, calls |-> <<request>>,
                           out |-> r.out, ret |-> r.ret] :
                             r \in {Resume(started,
                                           [state |-> "open", status |-> go.status, lines |-> <<>>],
                                           d)}})

\* g = client.subscribe(topic=topic_arg): a generator is built, nothing else happens,
\* and the generators built before are left as they are.  The generator also records
\* whether the call had a topic to use (unset: neither the argument nor the default).
Subscribe ==
    /\ Len(gen) < MaxGens
    /\ \E topic_arg \in TopicArgs :
        /\ call' = [op |-> "subscribe", topic |-> topic_arg]
        /\ gen' = Append(gen, [state |-> "created", topic |-> topic_arg,
                               unset |-> ~Truthy(PyOr(topic_arg, topic)),
                               yielded |-> <<>>, end |-> "none"])
    /\ conn' = Append(conn, NoConn)
    /\ ret' = Return(GeneratorObject)
    /\ UNCHANGED <<topic, calls, out, wrapper, inv>>

\* next(g) on the i-th generator: the first pull runs the body from its start, a later
\* one from the yield it stopped at; a generator that has ended raises StopIteration
GenNext ==
    \E i \in 1..Len(gen) :
        /\ call' = [op |-> "next", gen |-> i]
        /\ \/ /\ gen[i].state = "created"
              /\ \E go \in GetOutcomes, d \in Deliveries(MaxLines - LinesRead(conn)) :
                 \E r \in {Start(gen[i], i, topic, go, d)} :
                    /\ gen' = [gen EXCEPT ![i] = r.gen]
                    /\ conn' = [conn EXCEPT ![i] = r.conn]
                    /\ calls' = calls \o r.calls
                    /\ out' = out \o r.out
                    /\ ret' = r.ret
           \/ /\ gen[i].state = "suspended"
              /\ \E d \in Deliveries(MaxLines - LinesRead(conn)) :
                 \E r \in {Resume(gen[i], conn[i], d)} :
                    /\ gen' = [gen EXCEPT ![i] = r.gen]
                    /\ conn' = [conn EXCEPT ![i] = r.conn]
                    /\ out' = out \o r.out
                    /\ ret' = r.ret
              /\ calls' = calls
           \/ /\ gen[i].state = "done"
              /\ ret' = Raise("StopIteration", "")
              /\ UNCHANGED <<gen, conn, calls, out>>
        /\ UNCHANGED <<topic, wrapper, inv>>

\* g.close() on the i-th generator, or the generator being finalised when the consumer
\* drops it: a body stopped at the yield is left through the `with` statement, one not
\* begun never runs
GenClose ==
    \E i \in 1..Len(gen) :
        /\ call' = [op |-> "close", gen |-> i]
        /\ gen' = [gen EXCEPT ![i] = IF @.state = "done" THEN @
                                     ELSE [@ EXCEPT !.state = "done", !.end = "closed"]]
        /\ conn' = [conn EXCEPT ![i] = ExitWith(@)]
        /\ ret' = Return(None)
        /\ UNCHANGED <<topic, calls, out, wrapper, inv>>

NextSub == Subscribe \/ GenNext \/ GenClose \/ SetTopic

SpecSub == Init /\ [][NextSub]_vars

----------------------------------------------------------------------------
(* Topic generation: one call of generate_secure_topic on a client built without a
   topic. *)

Lengths == 0..MaxLen

Complexities == {0, 1, 2, 3}

\* the keyword arguments of the random strategy: length and complexity, each optional
RandomKwargs ==
    {[length |-> l, complexity |-> c] : l \in Lengths, c \in Complexities}
      \cup {[length |-> l] : l \in Lengths}
      \cup {[complexity |-> c] : c \in Complexities}
      \cup {EmptyDict}

HmacKwargs ==
    {[secret_key |-> k, identifier |-> i] : k \in SecretKeySamples, i \in IdentifierSamples}
      \cup {[secret_key |-> k] : k \in SecretKeySamples}
      \cup {[identifier |-> i] : i \in IdentifierSamples}
      \cup {EmptyDict}

CompoundKwargs == {[base_topic |-> b] : b \in BaseTopicSamples} \cup {EmptyDict}

InitGen ==
    /\ topic = None
    /\ calls = <<>>
    /\ call = NoCall
    /\ ret = NoRet
    /\ out = <<>>
    /\ wrapper = NoWrapper
    /\ inv = <<>>
    /\ gen = <<>>
    /\ conn = <<>>

Methods == {"random", "hmac", "uuid", "compound", "bogus"}

\* the keyword arguments tried with each method
KwargsOf(method) ==
    IF method = "random" THEN RandomKwargs
    ELSE IF method = "hmac" THEN HmacKwargs
    ELSE IF method = "compound" THEN CompoundKwargs
    ELSE {EmptyDict}

\* the random streams a method's draws come from: one for random and uuid, two (one
\* for each part) for compound, none for the others
DrawsOf(method) ==
    IF method \in {"random", "uuid"} THEN {<<p, p>> : p \in Patterns}
    ELSE IF method = "compound" THEN Patterns \X Patterns
    ELSE {<<(<<0>>), (<<0>>)>>}

\* client.generate_secure_topic(method, **kwargs), its draws coming from the streams
\* draws[1] and draws[2]
Generate ==
    /\ call = NoCall
    /\ \E method \in Methods :
          \E kwargs \in KwargsOf(method), draws \in DrawsOf(method) :
            /\ call' = [op |-> "generate_secure_topic", method |-> method,
                        kwargs |-> kwargs, draws |-> draws]
            /\ ret' = GenerateSecureTopic(method, kwargs, draws[1], draws[2])
    /\ UNCHANGED <<topic, calls, out, wrapper, inv, gen, conn>>

NextGen == Generate

SpecGen == InitGen /\ [][NextGen]_vars

----------------------------------------------------------------------------
(* Properties of send_notification, checked under Spec. *)

Unset(t) == t = None \/ t = <<>>

IsSend == call.op = "send_notification"

\* C1: send_notification called with no topic argument on a client whose default
\* topic is unset raises ValueError and issues no request, whatever the message and
\* the metadata are.
C1_NoTopicNoRequest ==
    (IsSend /\ Unset(call.topic) /\ Unset(call.self_topic))
        => /\ ret = Raise("ValueError", "No topic provided for sending notification.")
           /\ calls = <<>>

\* the call of C1 made with metadata and with a message that cannot be encoded
C1_Witness ==
    /\ IsSend /\ call.topic = None /\ call.self_topic = None
    /\ "title" \in DOMAIN call.kwargs
    /\ call.message = <<97, 56448>>
    /\ ret.kind = "raise" /\ ret.exc = "ValueError"

\* the POST of the call made last failed: a requests exception or a 4xx/5xx status
PostFailed ==
    \/ calls[1].outcome.kind = "error"
    \/ (calls[1].outcome.status >= 400 /\ calls[1].outcome.status < 600)

\* What does hold of send_notification: a POST is made for every resolvable topic and
\* encodable message; when it ends in a requests exception or a 4xx/5xx status the
\* call prints one failure line, returns None and does not raise; in every other
\* case, a 3xx status included, it prints the success line and returns the response.
FailureReturnsNone ==
    /\ (IsSend /\ ~(Unset(call.topic) /\ Unset(call.self_topic)) /\ Utf8Encodable(call.message))
          => /\ Len(calls) = 1
             /\ calls[1].method = "POST"
             /\ calls[1].url = BaseUrl \o <<47>>
                                  \o (IF Unset(call.topic) THEN call.self_topic ELSE call.topic)
    /\ (IsSend /\ Len(calls) = 1)
          => /\ ret.kind = "return"
             /\ Len(out) = 1
             /\ PostFailed => /\ ret.value = None
                              /\ out[1].text = "Failed to send notification: "
             /\ ~PostFailed => /\ ret.value = Response(calls[1].outcome.status)
                               /\ out[1].text = "Notification sent successfully to topic: "

\* C2: the response is returned only for a success (2xx) status; a POST that ends in a
\* requests exception or in any other status is reported as failed and gives None.
C2_ResponseOnlyOnSuccess ==
    (IsSend /\ Len(calls) = 1 /\ calls[1].outcome.kind = "response")
        => (ret.value /= None <=> (calls[1].outcome.status >= 200 /\ calls[1].outcome.status < 300))

----------------------------------------------------------------------------
(* Properties of the ntfy decorator, checked under SpecNtfy. *)

IsInvocation == call.op = "wrapper"

\* the places of the steps of this kind in the invocation made last
StepsAt(kind) == {i \in 1..Len(inv) : inv[i].step = kind}

FuncReturned == \E i \in StepsAt("func ends") : inv[i].end.kind = "return"

FuncRaised == \E i \in StepsAt("func ends") : inv[i].end.kind = "raise"

\* C3: when the wrapped function returns V, the invocation makes exactly one
\* send_notification call, after the function has returned and before the wrapper
\* ends, at most one request goes out and it goes out inside that call, and whenever
\* the send returns (the response, or None after a reported failure) the wrapper
\* returns exactly V.
C3_ReturnsValueAfterOneSend ==
    (IsInvocation /\ FuncReturned)
        => /\ Cardinality(StepsAt("func ends")) = 1
           /\ Cardinality(StepsAt("send_notification")) = 1
           /\ Cardinality(StepsAt("send_notification ends")) = 1
           /\ Cardinality(StepsAt("wrapper ends")) = 1
           /\ \A f \in StepsAt("func ends"), b \in StepsAt("send_notification"),
                 e \in StepsAt("send_notification ends"), w \in StepsAt("wrapper ends") :
                 /\ f < b /\ b < e /\ e < w /\ w = Len(inv)
                 /\ \A q \in StepsAt("request") : b < q /\ q < e
                 /\ Cardinality(StepsAt("request")) = Len(calls)
                 /\ Len(calls) <= 1
                 /\ inv[w].end = ret
                 /\ inv[e].end.kind = "return" => ret = Return(inv[f].end.value)

\* the function returned 'v1', the POST met a connection error, the wrapper returned 'v1'
C3_Witness ==
    /\ IsInvocation /\ FuncReturned
    /\ Len(calls) = 1 /\ calls[1].outcome.kind = "error"
    /\ Len(out) = 1 /\ out[1].text = "Failed to send notification: "
    /\ ret = Return(<<118, 49>>)

\* C4: when the wrapped function raises, the invocation makes no send_notification
\* call and no request, prints nothing, and ends with the exception the function
\* raised.
C4_RaiseMeansNoSend ==
    (IsInvocation /\ FuncRaised)
        => /\ StepsAt("send_notification") = {}
           /\ StepsAt("request") = {}
           /\ calls = <<>>
           /\ out = <<>>
           /\ \A f \in StepsAt("func ends") : ret = inv[f].end

\* the function raised KeyError and the wrapper ended with it
C4_Witness ==
    /\ IsInvocation /\ FuncRaised
    /\ ret = Raise("KeyError", "missing")
    /\ calls = <<>>

\* the topic a decorator built from these is bound to
BoundTopic(topic_arg, self_topic) == IF Unset(topic_arg) THEN self_topic ELSE topic_arg

\* C5: ntfy(...) raises ValueError itself when neither its topic argument nor the
\* default topic at that moment is set, and otherwise builds the wrapper; every
\* request of every later invocation goes to the topic resolved when ntfy(...) was
\* called, whatever the default topic has become, and no invocation ends with the
\* ValueError of a missing topic.
C5_TopicFixedAtWrapTime ==
    /\ call.op = "ntfy"
          => IF Unset(call.topic) /\ Unset(call.self_topic)
             THEN ret = Raise("ValueError", "No topic provided for notification decorator.")
             ELSE /\ ret = Return(FunctionObject)
                  /\ wrapper.state = "wrapped"
                  /\ wrapper.topic_arg = call.topic
                  /\ wrapper.self_topic = call.self_topic
                  /\ wrapper.message = call.message
                  /\ wrapper.notify_kwargs = call.kwargs
    /\ IsInvocation
          => /\ \A i \in 1..Len(calls) :
                   calls[i].url = BaseUrl \o <<47>> \o BoundTopic(wrapper.topic_arg, wrapper.self_topic)
             /\ \A i \in StepsAt("send_notification") :
                   inv[i].topic = BoundTopic(wrapper.topic_arg, wrapper.self_topic)
             /\ ~(ret.kind = "raise" /\ ret.exc = "ValueError")

\* a wrapper built without a topic argument is invoked after the default topic was
\* changed to another topic, and posts to the topic that was the default before
C5_Witness ==
    /\ IsInvocation
    /\ wrapper.topic_arg = None
    /\ ~Unset(topic) /\ topic /= wrapper.self_topic
    /\ Len(calls) = 1
    /\ calls[1].url = BaseUrl \o <<47>> \o wrapper.self_topic
    /\ call.self_topic = topic

----------------------------------------------------------------------------
(* Properties of subscribe, checked under SpecSub. *)

\* the non-empty lines among the first n of the response, in order
RECURSIVE NonEmptyLines(_, _)
NonEmptyLines(ls, n) ==
    IF n = 0 THEN <<>>
    ELSE IF ls[n] = <<>> THEN NonEmptyLines(ls, n - 1)
    ELSE Append(NonEmptyLines(ls, n - 1), ls[n])

\* a GET request went out for the i-th generator
Issued(i) == \E k \in 1..Len(calls) : calls[k].by = i

\* the i-th generator ran to the end of a streamed response, or stopped inside it
StreamConsumed(i) ==
    /\ gen[i].state = "done"
    /\ gen[i].end \in {"eof", "error", "decode"}
    /\ conn[i].state = "released"
    /\ conn[i].status < 400

\* C6: once a sequence has ended on a streamed response, what it yielded is every
\* non-empty line the response delivered, one str for each, and once the GET has
\* gone out nothing but StopIteration ever comes out of next().
C6_YieldsEveryNonEmptyLine ==
    /\ \A i \in 1..Len(gen) :
          StreamConsumed(i)
              => Len(gen[i].yielded) = Len(NonEmptyLines(conn[i].lines, Len(conn[i].lines)))
    /\ (call.op = "next" /\ Issued(call.gen) /\ ret.kind = "raise") => ret.exc = "StopIteration"

\* What does hold of every yielded sequence: it is, in order and one for one, the strs
\* whose UTF-8 encodings are the non-empty lines read so far, short of a line that
\* failed to decode, which is the last line read.
YieldedMatchesLinesRead ==
    \A i \in 1..Len(gen) :
        (conn[i].state \in {"open", "released"} /\ conn[i].status < 400)
            => LET ls == conn[i].lines
                   n == IF gen[i].end = "decode" THEN Len(ls) - 1 ELSE Len(ls)
               IN  /\ Len(gen[i].yielded) = Len(NonEmptyLines(ls, n))
                   /\ \A k \in 1..Len(gen[i].yielded) :
                         Utf8Encode(gen[i].yielded[k]) = NonEmptyLines(ls, n)[k]
                   /\ gen[i].end = "decode" => ~Utf8Valid(ls[Len(ls)])

\* C7: for every generator of the client, whatever the others are doing: no connection
\* exists and no request has gone out while it has not been pulled; its connection is
\* open exactly while it is stopped at a yield; once it has ended (end of stream,
\* error, exception or close) the connection it opened has been released.
C7_ConnectionScopedToPulling ==
    /\ Len(conn) = Len(gen)
    /\ \A i \in 1..Len(gen) :
          /\ gen[i].state = "created" => conn[i].state = "none" /\ ~Issued(i)
          /\ conn[i].state = "open" <=> gen[i].state = "suspended"
          /\ gen[i].state = "done" => conn[i].state \in {"none", "released"}
          /\ (gen[i].state = "done" /\ Issued(i) /\ gen[i].end \in {"eof", "decode", "closed"})
                => conn[i].state = "released"

\* the consumer took one line from a generator and closed it, while another generator
\* of the same client stays stopped at its yield with its connection open
C7_Witness ==
    \E i, j \in 1..Len(gen) :
        /\ i /= j
        /\ gen[i].state = "done" /\ gen[i].end = "closed"
        /\ Len(gen[i].yielded) = 1
        /\ conn[i].state = "released"
        /\ gen[j].state = "suspended"
        /\ conn[j].state = "open"

\* C8: for a subscribe call made while neither its topic argument nor the default
\* topic is set, no GET request is ever issued.
C8_NoTopicNoGet ==
    \A i \in 1..Len(gen) : gen[i].unset => ~Issued(i)

----------------------------------------------------------------------------
(* Properties of the topic generators, checked under SpecGen. *)

IsGenerate(method) == call.op = "generate_secure_topic" /\ call.method = method

\* how many '-' the str holds
Dashes(s) == Cardinality({i \in 1..Len(s) : s[i] = 45})

\* the str up to its first '-'
FirstSegment(s) ==
    IF Dashes(s) = 0 THEN s
    ELSE SubSeq(s, 1, (CHOOSE i \in 1..Len(s) : s[i] = 45 /\ \A j \in 1..(i - 1) : s[j] /= 45) - 1)

\* only 0-9 and a-f
IsHex(s) == \A i \in 1..Len(s) : s[i] \in (48..57) \cup (97..102)

\* only A-Z, a-z, 0-9, '-' and '_'
IsUrlSafe(s) == \A i \in 1..Len(s) : s[i] \in (65..90) \cup (97..122) \cup (48..57) \cup {45, 95}

\* hashlib.sha256(b).hexdigest()[:16] of 'x' and of 'ab'
ExpectedBaseHash(b) ==
    IF b = <<120>>
    THEN <<50, 100, 55, 49, 49, 54, 52, 50, 98, 55, 50, 54, 98, 48, 52, 52>>
    ELSE <<102, 98, 56, 101, 50, 48, 102, 99, 50, 101, 52, 99, 51, 102, 50, 52>>

\* C9, as amended: without a base_topic (None or '') the compound topic is 16 hex
\* characters, '-', and 16 URL-safe base64 characters; with one it is the first 16 hex
\* characters of the SHA-256 digest of the base_topic, '-', and then the same.  It
\* holds at least one (two) '-', more when the base64 part holds some, and its first
\* segment is the digest prefix when a base_topic is given.
C9_CompoundShape ==
    IsGenerate("compound")
        => /\ ret.kind = "return"
           /\ IF Unset(Get(call.kwargs, "base_topic", None))
              THEN /\ Len(ret.value) = 33
                   /\ IsHex(SubSeq(ret.value, 1, 16))
                   /\ ret.value[17] = 45
                   /\ IsUrlSafe(SubSeq(ret.value, 18, 33))
                   /\ Dashes(ret.value) = 1 + Dashes(SubSeq(ret.value, 18, 33))
              ELSE /\ Len(ret.value) = 50
                   /\ SubSeq(ret.value, 1, 16) = ExpectedBaseHash(call.kwargs["base_topic"])
                   /\ FirstSegment(ret.value) = ExpectedBaseHash(call.kwargs["base_topic"])
                   /\ ret.value[17] = 45
                   /\ IsHex(SubSeq(ret.value, 18, 33))
                   /\ ret.value[34] = 45
                   /\ IsUrlSafe(SubSeq(ret.value, 35, 50))
                   /\ Dashes(ret.value) = 2 + Dashes(SubSeq(ret.value, 35, 50))

\* the compound topic of 'x' whose base64 part holds '-'
C9_Witness ==
    /\ IsGenerate("compound")
    /\ "base_topic" \in DOMAIN call.kwargs
    /\ call.kwargs["base_topic"] = <<120>>
    /\ Dashes(ret.value) > 2
    /\ FirstSegment(ret.value) = ExpectedBaseHash(<<120>>)

\* C9 as stated: exactly one '-' without a base_topic, exactly two with one.
C9_ExactDashes ==
    IsGenerate("compound")
        => Dashes(ret.value) = IF Unset(Get(call.kwargs, "base_topic", None)) THEN 1 ELSE 2

\* C10, as amended: for complexity 1, 2 and 3 the random topic holds no '='; it is
\* non-empty when the length is at least 1 and empty when the length is 0; with
\* complexity 2 it is made of 0-9a-f and twice the length long.
C10_RandomShape ==
    (IsGenerate("random") /\ Get(call.kwargs, "complexity", 2) \in {1, 2, 3})
        => /\ ret.kind = "return"
           /\ \A i \in 1..Len(ret.value) : ret.value[i] /= 61
           /\ Get(call.kwargs, "length", 32) >= 1 => ret.value /= <<>>
           /\ Get(call.kwargs, "length", 32) = 0 => ret.value = <<>>
           /\ Get(call.kwargs, "complexity", 2) = 2
                 => /\ IsHex(ret.value)
                    /\ Len(ret.value) = 2 * Get(call.kwargs, "length", 32)

\* one byte in standard base64 is two characters and two '=', which are stripped
C10_Witness ==
    /\ IsGenerate("random")
    /\ Get(call.kwargs, "complexity", 2) = 1
    /\ Get(call.kwargs, "length", 32) = 1
    /\ Len(ret.value) = 2

\* C10 as stated: the random topic is non-empty for every length.
C10_NeverEmpty ==
    (IsGenerate("random") /\ Get(call.kwargs, "complexity", 2) \in {1, 2, 3})
        => ret.value /= <<>>

====
